---------------------------- MODULE Spec2Model ----------------------------
(***************************************************************************)
(* A model of phockup (src/src/phockup.py): the Phockup object, whose      *)
(* constructor walks an input tree and places every media file in a        *)
(* date-named directory of an output tree by move, hard link or copy.      *)
(*                                                                         *)
(* File names are sequences of tokens ("IMG_", "1", ".JPG"): the string is *)
(* the concatenation of the tokens, so that os.path.splitext, str.lower,   *)
(* str.replace and the f-strings of the source are computed on the name    *)
(* rather than assumed.  A directory is a sequence of path segments and a  *)
(* path is a pair <<directory, name>>.                                     *)
(***************************************************************************)
EXTENDS Integers, Sequences, FiniteSets, TLC

VARIABLES
    cfg,        \* the attributes __init__ derives from its arguments
    files,      \* the file system: path -> file, for every regular file
    dirs,       \* the file system: the set of directories
    counters,   \* files_processed, duplicates_found, unknown_found, ...
    phase,      \* where __init__ stands: "walk", "cancel", "rm", "done", ...
    walk,       \* os.walk: the directories still to be listed
    root,       \* os.walk: the directory whose files are being processed
    subdirs,    \* os.walk: dirnames of root, listed with its files
    queue,      \* file_paths_to_process not yet handed to process_file
    th,         \* per thread: the frame of its process_file call
    log,        \* the outcome messages logged, in order
    hist        \* history: what a property needs of the past

vars == <<cfg, files, dirs, counters, phase, walk, root, subdirs, queue, th, log, hist>>

-----------------------------------------------------------------------------
(* Bounds of the model. *)

\* Distinct file contents an input tree draws from.
MaxContent == 3
\* Distinct modification times an input file draws from.
MaxMtime == 2
\* The last second of a day (23:59:59), with the day scaled down.
MaxSec == 1

\* The days a file's date draws from.
MaxDay == 3

\* The largest max_depth a run is given.
MaxDepth == 2

\* max_concurrency of a concurrent run: the workers of the pool.
MaxWorkers == 2

None == "None"

-----------------------------------------------------------------------------
(* Names as token sequences. *)

ignored_files == {<<".DS_Store">>, <<"Thumbs", ".db">>}
ignored_extensions == <<".lrv", ".thm">>
known_sidecar_extensions == <<".xmp", ".aae">>

\* The tokens that are a file extension: a dot and letters.
ExtToks ==
    {".JPG", ".jpg", ".HEIC", ".heic", ".XMP", ".xmp", ".AAE", ".aae",
     ".LRV", ".lrv", ".thm", ".db", ".txt"}

\* str.lower on one token.
LowerTok(t) ==
    CASE t = ".JPG" -> ".jpg"
      [] t = ".HEIC" -> ".heic"
      [] t = ".XMP" -> ".xmp"
      [] t = ".AAE" -> ".aae"
      [] t = ".LRV" -> ".lrv"
      [] t = "IMG_" -> "img_"
      [] t = "O" -> "o"
      [] t = "Thumbs" -> "thumbs"
      [] OTHER -> t

\* str.lower on a name.
lower(name) == [i \in 1..Len(name) |-> LowerTok(name[i])]

\* str.endswith(name, ext) for an extension token.
endswith(name, ext) == Len(name) > 0 /\ name[Len(name)] = ext

\* os.path.splitext on a name: <<stem, extension>>, the extension empty when
\* the name has no dot after its first character.
splitext(name) ==
    IF Len(name) > 1 /\ name[Len(name)] \in ExtToks
    THEN <<SubSeq(name, 1, Len(name) - 1), <<name[Len(name)]>> >>
    ELSE <<name, << >> >>

\* str.replace("IMG_", "IMG_O") on a name.
RECURSIVE replace_IMG(_)
replace_IMG(name) ==
    IF name = << >> THEN << >>
    ELSE IF Head(name) = "IMG_"
         THEN <<"IMG_", "O">> \o replace_IMG(Tail(name))
         ELSE <<Head(name)>> \o replace_IMG(Tail(name))

\* f'-{suffix}' if suffix > 1 else '' (process_sidecars), as a name part.
string_suffix(suffix) ==
    IF suffix > 1 THEN << "-" \o ToString(suffix) >> ELSE << >>

-----------------------------------------------------------------------------
(* Dates, file contents and the external collaborators. *)

\* A date is a day and a second of that day; NoDate stands for None.
NoDate == [day |-> 0, sec |-> 0]

\* date1 < date2 on datetime values.
DateLess(d1, d2) == d1.day < d2.day \/ (d1.day = d2.day /\ d1.sec < d2.sec)

\* date.strftime(dir_format): one directory per day.
strftime(date) == "2023-03-0" \o ToString(date.day)

\* The size of a content: contents 1 and 2 have the same size, 3 another.
SizeOf(id) == (id + 1) \div 2

\* Exif(filename).data(): the metadata read from the file, None when the
\* file cannot be read.
Exif_data(fsf, path) ==
    IF path \in DOMAIN fsf
    THEN [MIMEType |-> fsf[path].data.mime, date |-> fsf[path].data.date,
          sub |-> fsf[path].data.sub]
    ELSE [MIMEType |-> None, date |-> NoDate, sub |-> ""]

\* Date(filename).from_exif(exif_data, ...): the date descriptor, whose
\* date is NoDate when the resolver returns None.
Date_from_exif(exif_data) ==
    [date |-> exif_data.date, subseconds |-> exif_data.sub]

-----------------------------------------------------------------------------
(* Phockup.__init__: the attributes set from the arguments. *)

\* input_dir.count(os.sep) of a relative path.
count_sep(dir) == Len(dir) - 1

sys_maxsize == 2147483647

Phockup_init(args) ==
    [input_dir |-> args.input_dir,
     output_dir |-> args.output_dir,
     output_prefix |-> args.output_prefix,
     output_suffix |-> args.output_suffix,
     no_date_dir |-> IF args.no_date_dir = None THEN "unknown" ELSE args.no_date_dir,
     move |-> args.move,
     link |-> args.link,
     original_filenames |-> args.original_filenames,
     skip_unknown |-> args.skip_unknown,
     movedel |-> <<args.movedel>>,
     rmdirs |-> <<args.rmdirs>>,
     dry_run |-> args.dry_run,
     max_depth |-> args.max_depth,
     max_concurrency |-> args.max_concurrency,
     from_date |-> IF args.from_date = 0 THEN NoDate
                   ELSE [day |-> args.from_date, sec |-> 0],
     to_date |-> IF args.to_date = 0 THEN NoDate
                 ELSE [day |-> args.to_date, sec |-> MaxSec],
     use_shallow_cmp |-> args.use_shallow_cmp,
     stop_depth |-> IF args.max_depth > -1
                    THEN count_sep(args.input_dir) + args.max_depth
                    ELSE sys_maxsize,
     file_type |-> args.file_type]

\* The truth value Python gives a tuple: a non-empty tuple is true.
Truthy(tuple) == Len(tuple) > 0

-----------------------------------------------------------------------------
(* The file system. *)

isfile(fsf, path) == path \in DOMAIN fsf

\* Every directory from the top down to dir.
Ancestors(dir) == {SubSeq(dir, 1, n) : n \in 1..Len(dir)}

\* os.makedirs(dir, exist_ok=True)
makedirs(ds, dir) == ds \cup Ancestors(dir)

\* The function fsf with path bound to file.
Put(fsf, path, file) ==
    [p \in DOMAIN fsf \cup {path} |-> IF p = path THEN file ELSE fsf[p]]

\* The function fsf without path.
Del(fsf, path) == [p \in DOMAIN fsf \ {path} |-> fsf[p]]

\* filecmp.cmp(f1, f2, shallow): equal signatures (size, mtime) settle a
\* shallow comparison, different sizes any comparison, the contents the rest.
filecmp_cmp(fsf, f1, f2, shallow) ==
    LET a == fsf[f1]
        b == fsf[f2]
    IN IF shallow /\ SizeOf(a.data.id) = SizeOf(b.data.id) /\ a.mtime = b.mtime
       THEN TRUE
       ELSE IF SizeOf(a.data.id) # SizeOf(b.data.id) THEN FALSE
       ELSE a.data = b.data

-----------------------------------------------------------------------------
(* The Path Builder: get_file_type, get_output_dir, get_file_name and       *)
(* get_file_name_and_path.                                                  *)

get_file_type(mimetype) ==
    CASE mimetype \in {"image/jpeg", "image/heic", "application/vnd.adobe.photoshop"}
            -> "image"
      [] mimetype \in {"video/mp4"} -> "video"
      [] mimetype = "application/rdf+xml" -> "xmp"
      [] OTHER -> None

\* An output path without the date directory: what get_output_dir must
\* not return.
output_path_flat(c, date) == c.output_dir

\* The path get_output_dir returns: the segments that are not None.
output_path(c, date) ==
    c.output_dir
    \o (IF c.output_prefix = None THEN << >> ELSE <<c.output_prefix>>)
    \o (IF date.date = NoDate THEN <<c.no_date_dir>> ELSE <<strftime(date.date)>>)
    \o (IF c.output_suffix = None THEN << >> ELSE <<c.output_suffix>>)

\* The directories after get_output_dir: the path is created unless it is
\* a directory already or the run is a dry run.
get_output_dir(c, ds, date) ==
    IF output_path(c, date) \notin ds /\ ~c.dry_run
    THEN makedirs(ds, output_path(c, date))
    ELSE ds

\* get_file_name: the original base name, or YYYYMMDD-HHMMSS[subseconds]
\* and the original extension.
get_file_name(c, original_filename, date) ==
    IF c.original_filenames THEN original_filename[2]
    ELSE IF date.date = NoDate THEN original_filename[2]
    ELSE << "2023030" \o ToString(date.date.day),
            "-10153" \o ToString(date.date.sec) >>
         \o (IF date.subseconds = "" THEN << >> ELSE << date.subseconds >>)
         \o splitext(original_filename[2])[2]

\* The XMP file whose metadata replaces the media file's own, None without.
xmp_filename(fsf, filename) ==
    LET xmp_original_with_ext == <<filename[1], filename[2] \o <<".xmp">> >>
        xmp_original_without_ext ==
            <<filename[1], splitext(filename[2])[1] \o <<".xmp">> >>
    IN IF isfile(fsf, xmp_original_without_ext) THEN xmp_original_without_ext
       ELSE IF isfile(fsf, xmp_original_with_ext) THEN xmp_original_with_ext
       ELSE filename

\* What get_file_name_and_path returns.
get_file_name_and_path(c, fsf, filename) ==
    LET exif_data == Exif_data(fsf, xmp_filename(fsf, filename))
        target_file_type == get_file_type(exif_data.MIMEType)
        typed == target_file_type \in {"image", "video", "xmp"}
        date == IF typed THEN Date_from_exif(exif_data)
                ELSE [date |-> NoDate, subseconds |-> ""]
        output == output_path(c, date)
        name == IF typed
                THEN IF c.original_filenames
                     THEN get_file_name(c, filename, date)
                     ELSE lower(get_file_name(c, filename, date))
                ELSE filename[2]
    IN [output |-> output,
        target_file_name |-> name,
        target_file_path |-> <<output, name>>,
        target_file_type |-> target_file_type,
        file_date |-> date.date]

-----------------------------------------------------------------------------
(* The mutations: shutil.move, os.link and shutil.copy2. *)

\* One transfer of src to dst by the run's method: the files afterwards and
\* the exception raised, "" when none.  shutil.move and shutil.copy2
\* replace a file that is at dst; os.link refuses to.
Transfer(c, fsf, src, dst) ==
    IF ~isfile(fsf, src) THEN [files |-> fsf, err |-> "FileNotFoundError"]
    ELSE IF c.move THEN [files |-> Put(Del(fsf, src), dst, fsf[src]), err |-> ""]
    ELSE IF c.link
         THEN IF isfile(fsf, dst) THEN [files |-> fsf, err |-> "FileExistsError"]
              ELSE [files |-> Put(fsf, dst, fsf[src]), err |-> ""]
    ELSE IF src = dst THEN [files |-> fsf, err |-> "SameFileError"]
    ELSE [files |-> Put(fsf, dst, fsf[src]), err |-> ""]

-----------------------------------------------------------------------------
(* The Sidecar Locator: process_sidecars. *)

\* sidecar_files[key] = value on a dict kept as a sequence of pairs: a key
\* that is present keeps its place and takes the new value.
DictSet(d, key, value) ==
    IF \E i \in 1..Len(d) : d[i][1] = key
    THEN [i \in 1..Len(d) |-> IF d[i][1] = key THEN <<key, value>> ELSE d[i]]
    ELSE Append(d, <<key, value>>)

\* The dict sidecar_files of one sidecar extension: original -> target name.
sidecar_files(fsf, original_filename, file_name, suffix, sidecar_ext) ==
    LET dir == original_filename[1]
        orig == original_filename[2]
        ext == <<sidecar_ext>>
        sidecar_original_with_ext == <<dir, orig \o ext>>
        sidecar_original_without_ext == <<dir, splitext(orig)[1] \o ext>>
        sidecar_original_leading_o == <<dir, replace_IMG(splitext(orig)[1]) \o ext>>
        sidecar_original_trailing_o == <<dir, splitext(orig)[1] \o <<"O">> \o ext>>
        d1 == IF isfile(fsf, sidecar_original_with_ext)
              THEN DictSet(<< >>, sidecar_original_with_ext,
                           file_name \o string_suffix(suffix) \o ext)
              ELSE << >>
        d2 == IF isfile(fsf, sidecar_original_without_ext)
              THEN DictSet(d1, sidecar_original_without_ext,
                           splitext(file_name)[1] \o string_suffix(suffix) \o ext)
              ELSE d1
        d3 == IF isfile(fsf, sidecar_original_leading_o)
              THEN DictSet(d2, sidecar_original_leading_o,
                           splitext(replace_IMG(file_name))[1]
                               \o string_suffix(suffix) \o ext)
              ELSE d2
        d4 == IF isfile(fsf, sidecar_original_trailing_o)
              THEN DictSet(d3, sidecar_original_trailing_o,
                           splitext(file_name)[1] \o <<"O">>
                               \o string_suffix(suffix) \o ext)
              ELSE d3
    IN d4

\* The loop over sidecar_files.items(): each original goes to its target
\* in output, until a transfer raises.
RECURSIVE transfer_sidecars(_, _, _, _)
transfer_sidecars(c, st, d, output) ==
    IF d = << >> \/ st.err # "" THEN st
    ELSE LET r == IF c.dry_run THEN [files |-> st.files, err |-> ""]
                  ELSE Transfer(c, st.files, Head(d)[1], <<output, Head(d)[2]>>)
         IN transfer_sidecars(c,
                [files |-> r.files, err |-> r.err,
                 moved |-> Append(st.moved, <<Head(d)[1], <<output, Head(d)[2]>> >>)],
                Tail(d), output)

\* process_sidecars: the loop over known_sidecar_extensions.  The result
\* holds the files afterwards, the exception raised ("" when none) and the
\* pairs <<original, sidecar_path>> it logged.
RECURSIVE process_sidecars_from(_, _, _, _, _, _, _)
process_sidecars_from(c, st, original_filename, file_name, suffix, output, i) ==
    IF i > Len(known_sidecar_extensions) \/ st.err # "" THEN st
    ELSE process_sidecars_from(c,
            transfer_sidecars(c, st,
                sidecar_files(st.files, original_filename, file_name, suffix,
                              known_sidecar_extensions[i]),
                output),
            original_filename, file_name, suffix, output, i + 1)

\* The sidecars copied whatever the method of the run: what
\* process_sidecars must not do.
process_sidecars_by_copy(c, fsf, original_filename, file_name, suffix, output) ==
    process_sidecars_from([c EXCEPT !.move = FALSE, !.link = FALSE],
                          [files |-> fsf, err |-> "", moved |-> << >>],
                          original_filename, file_name, suffix, output, 1)

process_sidecars(c, fsf, original_filename, file_name, suffix, output) ==
    process_sidecars_from(c, [files |-> fsf, err |-> "", moved |-> << >>],
                          original_filename, file_name, suffix, output, 1)

-----------------------------------------------------------------------------
(* The frame of a process_file call and the threads that run them.  With   *)
(* max_concurrency = 1 thread 1 is the main thread, which calls            *)
(* process_file itself; otherwise the threads are the pool's workers.      *)

NoPath == << << >>, << >> >>
NoRoot == << >>

IdleFrame ==
    [pc |-> "idle", seq |-> 0, filename |-> NoPath, output |-> << >>,
     target_file_name |-> << >>, target_file_path |-> NoPath,
     target_file_type |-> None, file_date |-> NoDate, suffix |-> 0,
     target_file |-> NoPath, ctr |-> "", after |-> "", tmp |-> 0, err |-> ""]

Threads == 1..cfg.max_concurrency

Concurrent == cfg.max_concurrency > 1

\* Where a frame goes on: "fp" is the increment of files_processed that
\* ends process_file, "return" its end.
Goto(frame, label) ==
    CASE label = "fp" ->
            [frame EXCEPT !.pc = "inc_read", !.ctr = "files_processed",
                          !.after = "return"]
      [] label = "return" -> IdleFrame
      [] OTHER -> [frame EXCEPT !.pc = label]

\* self.<ctr> += 1 followed by label: the read and the write are two steps.
Inc(frame, counter, label) ==
    [frame EXCEPT !.pc = "inc_read", !.ctr = counter, !.after = label]

Running(frame) == frame.pc \notin {"idle", "raised"}

\* One outcome message of process_file.
Entry(frame, kind, target) ==
    [file |-> frame.filename, kind |-> kind, target |-> target]

\* The phase after walk_directory returns: rm_subdirs runs when self.move
\* and self.rmdirs are true.
AfterWalk == IF cfg.move /\ Truthy(cfg.rmdirs) THEN "rm" ELSE "done"

\* An exception other than KeyboardInterrupt leaves process_file: in the
\* main thread it leaves __init__ too; in a worker it is kept by the future.
RaisedPhase == IF Concurrent THEN phase ELSE "crashed"

-----------------------------------------------------------------------------
(* walk_directory. *)

\* The order of two names under list.sort(): the first token that differs
\* decides, a proper prefix comes first.
TokOrder ==
    <<"-2", "-3", ".DS_Store", ".HEIC", ".JPG", ".LRV", ".XMP", ".aae", ".db",
      ".heic", ".jpg", ".lrv", ".thm", ".txt", ".xmp", "1", "2", "3", "IMG_",
      "O", "Thumbs", "a", "b", "img_", "o">>

TokRank(t) == CHOOSE i \in 1..Len(TokOrder) : TokOrder[i] = t

RECURSIVE NameLess(_, _)
NameLess(a, b) ==
    IF a = << >> THEN b # << >>
    ELSE IF b = << >> THEN FALSE
    ELSE IF Head(a) = Head(b) THEN NameLess(Tail(a), Tail(b))
    ELSE TokRank(Head(a)) < TokRank(Head(b))

\* files.sort(): the names of a set in ascending order.
RECURSIVE sorted(_)
sorted(names) ==
    IF names = {} THEN << >>
    ELSE LET least == CHOOSE n \in names : \A m \in names \ {n} : NameLess(n, m)
         IN <<least>> \o sorted(names \ {least})

\* Whether walk_directory leaves a file name out.
ignored(filename) ==
    \/ filename \in ignored_files
    \/ \E i \in 1..Len(ignored_extensions) :
            endswith(lower(filename), ignored_extensions[i])

\* file_paths_to_process of a directory of the walk.
file_paths_to_process(fsf, dir) ==
    LET names == sorted({p[2] : p \in {q \in DOMAIN fsf : q[1] = dir}})
        kept == SelectSeq(names, LAMBDA n : ~ignored(n))
    IN [i \in 1..Len(kept) |-> <<dir, kept[i]>>]

\* dirnames of a directory.
Children(ds, dir) ==
    {d \in ds : Len(d) = Len(dir) + 1 /\ SubSeq(d, 1, Len(dir)) = dir}

\* The orders in which a listing may give a set of directories.
Orders(S) ==
    {o \in [1..Cardinality(S) -> S] : \A i, j \in 1..Cardinality(S) : i # j => o[i] # o[j]}

\* A walk that descends one level below stop_depth: what walk_directory
\* must not do.
prune_below(c, walk_root) == count_sep(walk_root) > c.stop_depth

\* root.count(os.sep) >= self.stop_depth: the directories below walk_root
\* are not walked.
prune(c, walk_root) == count_sep(walk_root) >= c.stop_depth

\* os.walk yields the next directory: its files are sorted and filtered.
ListDir ==
    /\ phase = "walk"
    /\ root = NoRoot
    /\ walk # << >>
    /\ root' = Head(walk)
    /\ walk' = Tail(walk)
    /\ subdirs' = Children(dirs, Head(walk))
    /\ queue' = file_paths_to_process(files, Head(walk))
    /\ UNCHANGED <<cfg, files, dirs, counters, phase, th, log, hist>>

\* The batch of a directory is over: in the loop of walk_directory the
\* directories below root are pruned at stop_depth and the walk goes on;
\* after an interrupt or an exception walk_directory is left.
EndBatch ==
    /\ root # NoRoot
    /\ queue = << >>
    /\ \A w \in Threads : ~Running(th[w])
    /\ IF phase = "walk" THEN \A w \in Threads : th[w].pc = "idle"
       ELSE phase \in {"drain", "crashing"}
    /\ \E order \in Orders(subdirs) :
          walk' = IF phase # "walk" THEN << >>
                  ELSE IF prune(cfg, root) THEN walk
                  ELSE order \o walk
    /\ phase' = CASE phase = "drain" -> AfterWalk
                  [] phase = "crashing" -> "crashed"
                  [] OTHER -> IF walk' = << >> THEN AfterWalk ELSE "walk"
    /\ root' = NoRoot
    /\ subdirs' = {}
    /\ UNCHANGED <<cfg, files, dirs, counters, queue, th, log, hist>>

-----------------------------------------------------------------------------
(* process_file. *)

\* A file is handed to process_file: by the loop of walk_directory, or by a
\* worker of the pool that takes the oldest pending call.  A name with a
\* sidecar extension returns at once; for any other get_file_name_and_path
\* gives the target, and creates its directory.
StartFile(w) ==
    /\ phase \in {"walk", "cancel"}
    /\ phase = "cancel" => Concurrent
    /\ queue # << >>
    /\ th[w].pc = "idle"
    /\ LET filename == Head(queue)
           sidecar == \E i \in 1..Len(known_sidecar_extensions) :
                         endswith(filename[2], known_sidecar_extensions[i])
           r == get_file_name_and_path(cfg, files, filename)
       IN /\ th' = [th EXCEPT ![w] =
                    IF sidecar THEN IdleFrame
                    ELSE [IdleFrame EXCEPT
                            !.pc = "loop",
                            !.seq = Len(hist.dispatched) + 1,
                            !.filename = filename,
                            !.output = r.output,
                            !.target_file_name = r.target_file_name,
                            !.target_file_path = r.target_file_path,
                            !.target_file_type = r.target_file_type,
                            !.file_date = r.file_date,
                            !.suffix = 1,
                            !.target_file = r.target_file_path]]
          /\ dirs' = IF sidecar THEN dirs
                     ELSE get_output_dir(cfg, dirs,
                            [date |-> r.file_date, subseconds |-> ""])
          /\ hist' = [hist EXCEPT
                        !.dispatched = Append(@, filename),
                        !.late = IF hist.interrupted THEN @ \cup {filename} ELSE @]
    /\ queue' = Tail(queue)
    /\ UNCHANGED <<cfg, files, counters, phase, walk, root, subdirs, log>>

\* A target after a collision with the suffix behind the extension
\* (name.ext-2): what the loop of process_file must not produce.
suffixed_behind(target_file_path, suffix) ==
    <<target_file_path[1],
      target_file_path[2] \o << "-" \o ToString(suffix) >> >>

\* The target after a collision: the suffix goes before the extension.
suffixed(target_file_path, suffix) ==
    <<target_file_path[1],
      splitext(target_file_path[2])[1] \o << "-" \o ToString(suffix) >>
          \o splitext(target_file_path[2])[2]>>

\* An exception that no except clause of process_file catches leaves the
\* call.
Raise(frame, err) == [frame EXCEPT !.pc = "raised", !.err = err]

\* One pass of the loop of process_file, up to the mutation: the type
\* filter, the unknown-date skip, the date range, and the probe of
\* target_file with the comparison of the two files.
Loop(w) ==
    /\ th[w].pc = "loop"
    /\ phase \notin {"done", "crashed", "rm"}
    /\ LET f == th[w]
           wrong_type == cfg.file_type # None /\ cfg.file_type # f.target_file_type
           in_unknown == f.output[Len(f.output)] = cfg.no_date_dir
           date_unknown == f.file_date = NoDate \/ in_unknown
           too_old == cfg.from_date # NoDate /\ DateLess(f.file_date, cfg.from_date)
           too_new == cfg.to_date # NoDate /\ DateLess(cfg.to_date, f.file_date)
           exists == isfile(files, f.target_file)
           gone == ~isfile(files, f.filename)
           same == f.filename # f.target_file
                   /\ filecmp_cmp(files, f.filename, f.target_file, cfg.use_shallow_cmp)
           delete == Truthy(cfg.movedel) /\ cfg.move /\ cfg.skip_unknown
           case ==
               CASE wrong_type -> "type"
                 [] ~wrong_type /\ cfg.skip_unknown /\ in_unknown -> "unknown"
                 [] ~wrong_type /\ ~(cfg.skip_unknown /\ in_unknown)
                        /\ ~date_unknown /\ (too_old \/ too_new) -> "range"
                 [] OTHER ->
                      IF ~exists THEN "place"
                      ELSE IF f.filename # f.target_file /\ gone THEN "raise"
                      ELSE IF same THEN "duplicate"
                      ELSE "again"
       IN /\ th' = [th EXCEPT ![w] =
                CASE case = "type" -> Goto(f, "fp")
                  [] case = "unknown" -> Inc(f, "unknown_found", "fp")
                  [] case = "range" -> Goto(f, "fp")
                  [] case = "raise" -> Raise(f, "FileNotFoundError")
                  [] case = "duplicate" -> Inc(f, "duplicates_found", "fp")
                  [] case = "again" ->
                        [f EXCEPT !.suffix = f.suffix + 1,
                                  !.target_file = suffixed(f.target_file_path, f.suffix + 1)]
                  [] OTHER ->
                        IF cfg.move THEN Inc(f, "files_moved", "place")
                        ELSE IF cfg.link /\ ~cfg.dry_run THEN Goto(f, "place")
                        ELSE Inc(f, "files_copied", "place")]
          /\ files' = IF case = "duplicate" /\ delete /\ ~cfg.dry_run
                      THEN Del(files, f.filename)
                      ELSE files
          /\ log' = CASE case = "type" -> Append(log, Entry(f, "skipped_type", NoPath))
                      [] case = "unknown" -> Append(log, Entry(f, "skipped_unknown", NoPath))
                      [] case = "range" -> Append(log, Entry(f, "skipped_date", NoPath))
                      [] case = "duplicate" ->
                            Append(log, Entry(f, IF delete THEN "deleted_duplicate"
                                                 ELSE "skipped_duplicate", f.target_file))
                      [] OTHER -> log
          /\ phase' = IF case = "raise" THEN RaisedPhase ELSE phase
          /\ hist' = IF case \in {"type", "unknown", "range"} THEN hist
                     ELSE [hist EXCEPT !.probes = @ \cup
                            {[file |-> f.filename, suffix |-> f.suffix,
                              candidate |-> f.target_file, exists |-> exists,
                              identical |-> exists /\ ~gone
                                  /\ files[f.target_file].data.id = files[f.filename].data.id]}]
    /\ UNCHANGED <<cfg, dirs, counters, walk, root, subdirs, queue>>

\* self.<counter> += 1, the read of the attribute.
IncRead(w) ==
    /\ th[w].pc = "inc_read"
    /\ phase \notin {"done", "crashed", "rm"}
    /\ th' = [th EXCEPT ![w] = [th[w] EXCEPT !.pc = "inc_write",
                                              !.tmp = counters[th[w].ctr]]]
    /\ UNCHANGED <<cfg, files, dirs, counters, phase, walk, root, subdirs, queue, log, hist>>

\* self.<counter> += 1, the write of the value read plus one.
IncWrite(w) ==
    /\ th[w].pc = "inc_write"
    /\ phase \notin {"done", "crashed", "rm"}
    /\ counters' = [counters EXCEPT ![th[w].ctr] = th[w].tmp + 1]
    /\ th' = [th EXCEPT ![w] = Goto(th[w], th[w].after)]
    /\ hist' = [hist EXCEPT !.returned =
                    IF th[w].after = "return" THEN @ \cup {th[w].filename} ELSE @]
    /\ UNCHANGED <<cfg, files, dirs, phase, walk, root, subdirs, queue, log>>

\* The mutation of process_file: shutil.move, os.link or shutil.copy2 of
\* filename to target_file, none of them in a dry run.  A source that is
\* missing is logged in move and copy mode; any other exception, and any
\* exception of os.link, leaves process_file.
Place(w) ==
    /\ th[w].pc = "place"
    /\ phase \notin {"done", "crashed", "rm"}
    /\ LET f == th[w]
           r == IF cfg.dry_run THEN [files |-> files, err |-> ""]
                ELSE Transfer(cfg, files, f.filename, f.target_file)
           caught == r.err = "FileNotFoundError" /\ (cfg.move \/ ~cfg.link)
       IN /\ files' = r.files
          /\ th' = [th EXCEPT ![w] =
                        IF r.err = "" THEN Goto(f, "sidecars")
                        ELSE IF caught THEN Goto(f, "fp")
                        ELSE Raise(f, r.err)]
          /\ log' = IF r.err = "" THEN Append(log, Entry(f, "placed", f.target_file))
                    ELSE IF caught THEN Append(log, Entry(f, "skipped_missing", NoPath))
                    ELSE log
          /\ phase' = IF r.err # "" /\ ~caught THEN RaisedPhase ELSE phase
    /\ UNCHANGED <<cfg, dirs, counters, walk, root, subdirs, queue, hist>>

\* The log lines of process_sidecars: one per sidecar.
RECURSIVE sidecar_entries(_, _)
sidecar_entries(frame, moved) ==
    IF moved = << >> THEN << >>
    ELSE << [file |-> Head(moved)[1], kind |-> "sidecar", target |-> Head(moved)[2]] >>
         \o sidecar_entries(frame, Tail(moved))

\* process_sidecars(filename, target_file_name, suffix, output), called
\* after the primary file was placed.
Sidecars(w) ==
    /\ th[w].pc = "sidecars"
    /\ phase \notin {"done", "crashed", "rm"}
    /\ LET f == th[w]
           r == process_sidecars(cfg, files, f.filename, f.target_file_name,
                                 f.suffix, f.output)
       IN /\ files' = r.files
          /\ th' = [th EXCEPT ![w] = IF r.err = "" THEN Goto(f, "fp")
                                     ELSE Raise(f, r.err)]
          /\ log' = log \o sidecar_entries(f, r.moved)
          /\ hist' = [hist EXCEPT !.sidecars = @ \o
                        [i \in 1..Len(r.moved) |->
                            [primary |-> f.filename, primary_target |-> f.target_file,
                             suffix |-> f.suffix,
                             original |-> r.moved[i][1], target |-> r.moved[i][2]]]]
          /\ phase' = IF r.err # "" THEN RaisedPhase ELSE phase
    /\ UNCHANGED <<cfg, dirs, counters, walk, root, subdirs, queue>>

-----------------------------------------------------------------------------
(* KeyboardInterrupt and the exceptions of the workers. *)

\* The user interrupts the run while a directory's batch is processed.  The
\* main thread of a sequential run is inside process_file or between two
\* calls: the exception abandons the call where it stands and
\* walk_directory returns.  The main thread of a concurrent run waits in
\* executor.map: the exception is raised there.
Interrupt ==
    /\ phase = "walk"
    /\ root # NoRoot
    /\ ~hist.interrupted
    /\ hist' = [hist EXCEPT
                  !.interrupted = TRUE,
                  !.int_at = Len(hist.dispatched),
                  !.inflight = {th[w].filename : w \in {v \in Threads : Running(th[v])}}]
    /\ IF Concurrent
       THEN /\ phase' = "cancel"
            /\ UNCHANGED <<th, queue, walk, root, subdirs>>
       ELSE /\ phase' = AfterWalk
            /\ th' = [w \in Threads |-> IdleFrame]
            /\ queue' = << >>
            /\ walk' = << >>
            /\ root' = NoRoot
            /\ subdirs' = {}
    /\ UNCHANGED <<cfg, files, dirs, counters, log>>

\* The iterator of executor.map ends: the calls still pending are
\* cancelled, and executor.shutdown(wait=True) waits for those that run.
Cancel ==
    /\ phase = "cancel"
    /\ queue' = << >>
    /\ phase' = "drain"
    /\ UNCHANGED <<cfg, files, dirs, counters, walk, root, subdirs, th, log, hist>>

\* The main thread of a concurrent run takes the results in the order of
\* the calls: the exception of a call is raised again when every earlier
\* call has ended, the pending calls are cancelled and the pool is left.
Reraise ==
    /\ phase = "walk"
    /\ \E w \in Threads :
          /\ th[w].pc = "raised"
          /\ \A v \in Threads : Running(th[v]) => th[v].seq > th[w].seq
    /\ queue' = << >>
    /\ phase' = "crashing"
    /\ UNCHANGED <<cfg, files, dirs, counters, walk, root, subdirs, th, log, hist>>

-----------------------------------------------------------------------------
(* rm_subdirs. *)

\* _get_depth(sub_path)
get_depth(c, sub_path) == count_sep(sub_path) - count_sep(c.input_dir)

\* The directories below input_dir, the deepest first: the order in which
\* os.walk(topdown=False) comes to remove them.
RECURSIVE bottom_up(_)
bottom_up(ds) ==
    IF ds = {} THEN << >>
    ELSE LET d == CHOOSE x \in ds : \A y \in ds : Len(y) <= Len(x)
         IN <<d>> \o bottom_up(ds \ {d})

\* os.rmdir succeeds on a directory that holds no file and no directory.
empty_dir(fsf, ds, d) ==
    /\ \A p \in DOMAIN fsf : p[1] # d
    /\ Children(ds, d) = {}

\* The loop of rm_subdirs over the directories order[i..]: a directory is
\* tried unless it, or the directory it is listed in, is deeper than
\* stop_depth.
RECURSIVE rm_from(_, _, _, _, _)
rm_from(c, fsf, ds, order, i) ==
    IF i > Len(order) THEN ds
    ELSE LET dir_path == order[i]
             walk_root == SubSeq(dir_path, 1, Len(dir_path) - 1)
             tried == ~(get_depth(c, walk_root) > c.stop_depth)
                      /\ ~(get_depth(c, dir_path) > c.stop_depth)
         IN rm_from(c, fsf,
                    IF tried /\ empty_dir(fsf, ds, dir_path) THEN ds \ {dir_path} ELSE ds,
                    order, i + 1)

rm_subdirs(c, fsf, ds) ==
    rm_from(c, fsf, ds,
            bottom_up({d \in ds : Len(d) > Len(c.input_dir)
                                  /\ SubSeq(d, 1, Len(c.input_dir)) = c.input_dir}),
            1)

\* __init__ after walk_directory: rm_subdirs when self.move and
\* self.rmdirs, then the report.
RmSubdirs ==
    /\ phase = "rm"
    /\ dirs' = rm_subdirs(cfg, files, dirs)
    /\ phase' = "done"
    /\ UNCHANGED <<cfg, files, counters, walk, root, subdirs, queue, th, log, hist>>

-----------------------------------------------------------------------------
(* The runs: the arguments of Phockup(...) and the trees it is started on. *)

InputDir == <<"data", "in">>
OutputDir == <<"data", "out">>
SubDir == InputDir \o <<"s">>
EmptyDir == InputDir \o <<"e">>

\* The defaults of the arguments **args of __init__.
DefaultArgs ==
    [input_dir |-> InputDir, output_dir |-> OutputDir, output_prefix |-> None,
     output_suffix |-> None, no_date_dir |-> None, move |-> FALSE, link |-> FALSE,
     original_filenames |-> FALSE, skip_unknown |-> FALSE, movedel |-> FALSE,
     rmdirs |-> FALSE, dry_run |-> FALSE, max_depth |-> -1, max_concurrency |-> 1,
     from_date |-> 0, to_date |-> 0, use_shallow_cmp |-> FALSE, file_type |-> None]

\* A file of the given content, MIME type, date, subseconds and mtime.
File(id, mime, day, sec, mtime) ==
    [data |-> [id |-> id, mime |-> mime,
               date |-> [day |-> day, sec |-> sec], sub |-> ""],
     mtime |-> mtime]

Image(id, mtime) == File(id, "image/jpeg", 1, 0, mtime)
Undated(id, mtime) == File(id, "image/jpeg", 0, 0, mtime)
Video(id, mtime) == File(id, "video/mp4", 1, 0, mtime)
Dated(id, day, sec) == File(id, "image/jpeg", day, sec, 1)
Text(id, mtime) == File(id, "text/plain", 0, 0, mtime)
Xmp(id, mtime) == File(id, "application/rdf+xml", 1, 0, mtime)

\* The file system that holds the given <<path, file>> pairs.
FilesOf(pairs) ==
    [p \in {e[1] : e \in pairs} |-> (CHOOSE e \in pairs : e[1] = p)[2]]

\* check_directories: the output directory is created when it is missing,
\* except in a dry run.
check_directories(c, ds) ==
    IF c.output_dir \notin ds /\ ~c.dry_run THEN makedirs(ds, c.output_dir) ELSE ds

\* The state in which __init__ starts walk_directory.
Start(args, fsf, ds) ==
    /\ cfg = Phockup_init(args)
    /\ files = fsf
    /\ dirs = check_directories(Phockup_init(args), ds)
    /\ counters = [files_processed |-> 0, duplicates_found |-> 0, unknown_found |-> 0,
                   files_moved |-> 0, files_copied |-> 0]
    /\ phase = "walk"
    /\ walk = <<args.input_dir>>
    /\ root = NoRoot
    /\ subdirs = {}
    /\ queue = << >>
    /\ th = [w \in 1..args.max_concurrency |-> IdleFrame]
    /\ log = << >>
    /\ hist = [dispatched |-> << >>, interrupted |-> FALSE, int_at |-> 0,
               inflight |-> {}, late |-> {}, sidecars |-> << >>, returned |-> {},
               files0 |-> fsf, dirs0 |-> ds, run |-> 1, vanished |-> {},
               probes |-> {},
               first |-> [log |-> << >>, files |-> fsf, dirs |-> ds,
                          counters |-> [files_processed |-> 0, duplicates_found |-> 0,
                                        unknown_found |-> 0, files_moved |-> 0,
                                        files_copied |-> 0]]]

P1 == <<InputDir, <<"IMG_", "1", ".JPG">> >>
P2 == <<InputDir, <<"IMG_", "2", ".JPG">> >>
P3 == <<SubDir, <<"IMG_", "1", ".JPG">> >>

\* The four sidecars of P2, one per naming of process_sidecars.
SidecarsOfP2 ==
    {<< <<InputDir, <<"IMG_", "2", ".JPG", ".xmp">> >>, Xmp(1, 1) >>,
     << <<InputDir, <<"IMG_", "2", ".xmp">> >>, Xmp(2, 1) >>,
     << <<InputDir, <<"IMG_", "O", "2", ".aae">> >>, Text(1, 1) >>,
     << <<InputDir, <<"IMG_", "2", "O", ".aae">> >>, Text(2, 1) >>}

BaseDirs == {<<"data">>, InputDir, OutputDir}

\* The sequential runs: every mode, and trees with files that collide, are
\* duplicates, have no date, are no media, have sidecars.
Init ==
    \E mode \in {"copy", "move", "link"}, dry, skip, del, shallow \in BOOLEAN,
       o1 \in {{}} \cup {{<<P1, f>>} : f \in {Image(1, 1), Image(2, 1), Undated(1, 1), Text(1, 1)}},
       o2 \in {{}} \cup {{<<P2, f>>} \cup sc : f \in {Image(1, 1), Image(2, 1)},
                                             sc \in {{}, SidecarsOfP2}},
       o3 \in {{}} \cup {{<<P3, Image(1, 1)>>}},
       e \in {{}, {EmptyDir}} :
        Start([DefaultArgs EXCEPT !.move = (mode = "move"), !.link = (mode = "link"),
                                  !.dry_run = dry, !.skip_unknown = skip,
                                  !.movedel = del, !.use_shallow_cmp = shallow],
              FilesOf(o1 \cup o2 \cup o3),
              BaseDirs \cup e \cup (IF o3 = {} THEN {} ELSE {SubDir}))

\* walk_directory when nothing interrupts it.
NextWalk ==
    \/ ListDir
    \/ EndBatch
    \/ \E w \in Threads : StartFile(w)
    \/ \E w \in Threads : Loop(w)
    \/ \E w \in Threads : IncRead(w)
    \/ \E w \in Threads : IncWrite(w)
    \/ \E w \in Threads : Place(w)
    \/ \E w \in Threads : Sidecars(w)

\* A run that nothing interrupts.
NextRun == NextWalk \/ RmSubdirs

Next == NextRun \/ Interrupt

Spec == Init /\ [][Next]_vars

\* The runs of files that collide on one target: the files of one day and
\* second, of every content and modification time, in the input directory
\* and below it, named by date or by their original names.
P4 == <<InputDir, <<"IMG_", "1", "-2", ".JPG">> >>

InitSuffix ==
    \E mode \in {"copy", "move", "link"}, shallow, orig \in BOOLEAN,
       id1 \in 1..MaxContent,
       o2 \in {{}} \cup {{<<P2, Image(id, m)>>} \cup sc :
                            id \in 1..MaxContent, m \in 1..MaxMtime,
                            sc \in {{}, SidecarsOfP2}},
       o3 \in {{}} \cup {{<<P3, Image(id, 1)>>} : id \in 1..MaxContent},
       o4 \in {{}, {<<P4, Image(MaxContent, 1)>>}} :
        Start([DefaultArgs EXCEPT !.move = (mode = "move"), !.link = (mode = "link"),
                                  !.use_shallow_cmp = shallow,
                                  !.original_filenames = orig],
              FilesOf({<<P1, Image(id1, 1)>>} \cup o2 \cup o3 \cup o4),
              BaseDirs \cup (IF o3 = {} THEN {} ELSE {SubDir}))

SpecSuffix == InitSuffix /\ [][NextRun]_vars

\* Phockup(...) is constructed once more when the first run has returned:
\* the state in which the second __init__ starts walk_directory, with the
\* first run's log, counters and trees kept in the history.
Restart(c, fsf, ds) ==
    /\ cfg' = c
    /\ files' = fsf
    /\ dirs' = check_directories(c, ds)
    /\ counters' = [files_processed |-> 0, duplicates_found |-> 0, unknown_found |-> 0,
                    files_moved |-> 0, files_copied |-> 0]
    /\ phase' = "walk"
    /\ walk' = <<c.input_dir>>
    /\ root' = NoRoot
    /\ subdirs' = {}
    /\ queue' = << >>
    /\ th' = [w \in 1..c.max_concurrency |-> IdleFrame]
    /\ log' = << >>
    /\ hist' = [hist EXCEPT !.dispatched = << >>, !.sidecars = << >>, !.returned = {},
                            !.run = 2,
                            !.first = [log |-> log, files |-> files, dirs |-> dirs,
                                       counters |-> counters]]

\* After a dry run, the real run: the same arguments without dry_run, on
\* the trees the dry run was started on.
RunReal ==
    /\ phase = "done"
    /\ hist.run = 1
    /\ cfg.dry_run
    /\ Restart([cfg EXCEPT !.dry_run = FALSE], hist.files0, hist.dirs0)

InitDryReal ==
    \E mode \in {"copy", "move", "link"}, skip, del \in BOOLEAN,
       o1 \in {{}} \cup {{<<P1, f>>} : f \in {Image(1, 1), Undated(1, 1), Text(1, 1)}},
       o2 \in {{}} \cup {{<<P2, f>>} \cup sc : f \in {Image(1, 1), Image(2, 1)},
                                             sc \in {{}, SidecarsOfP2}},
       o3 \in {{}} \cup {{<<P3, Image(1, 1)>>}},
       e \in {{}, {EmptyDir}} :
        Start([DefaultArgs EXCEPT !.move = (mode = "move"), !.link = (mode = "link"),
                                  !.dry_run = TRUE, !.skip_unknown = skip,
                                  !.movedel = del],
              FilesOf(o1 \cup o2 \cup o3),
              BaseDirs \cup e \cup (IF o3 = {} THEN {} ELSE {SubDir}))

NextDryReal == NextRun \/ RunReal

SpecDryReal == InitDryReal /\ [][NextDryReal]_vars

\* After a run that was no dry run, the same run again: the same arguments
\* on the input tree and the output tree as the first run left them.
RunAgain ==
    /\ phase = "done"
    /\ hist.run = 1
    /\ ~cfg.dry_run
    /\ Restart(cfg, files, dirs)

\* A file with the extension .XMP in capitals: no name process_file takes
\* for a sidecar, and of type xmp by its MIME type.
PX == <<InputDir, <<"IMG_", "1", ".XMP">> >>

InitTwice ==
    \E shallow \in BOOLEAN,
       o1 \in {{}} \cup {{<<P1, f>>} : f \in {Image(1, 1), Undated(1, 1), Text(1, 1)}},
       ox \in {{}, {<<PX, Xmp(3, 1)>>}},
       o2 \in {{}} \cup {{<<P2, f>>} \cup sc : f \in {Image(1, 1), Image(2, 1)},
                                             sc \in {{}, SidecarsOfP2}},
       o3 \in {{}} \cup {{<<P3, Image(id, 1)>>} : id \in 1..MaxContent} :
        Start([DefaultArgs EXCEPT !.use_shallow_cmp = shallow],
              FilesOf(o1 \cup ox \cup o2 \cup o3),
              BaseDirs \cup (IF o3 = {} THEN {} ELSE {SubDir}))

NextTwice == NextWalk \/ RunAgain

SpecTwice == InitTwice /\ [][NextTwice]_vars

\* Something outside the program removes a file that process_file has
\* taken up and not yet moved, linked or copied: the source is missing when
\* process_file comes to compare or to place it.
Vanish ==
    /\ phase = "walk"
    /\ hist.vanished = {}
    /\ \E w \in Threads :
          /\ th[w].pc \in {"loop", "inc_read", "inc_write", "place"}
          /\ th[w].after \in {"", "place"}
          /\ isfile(files, th[w].filename)
          /\ files' = Del(files, th[w].filename)
          /\ hist' = [hist EXCEPT !.vanished = {th[w].filename}]
    /\ UNCHANGED <<cfg, dirs, counters, phase, walk, root, subdirs, queue, th, log>>

\* The sequential runs during which a source file may vanish, in every
\* mode, on trees with files that collide or are duplicates.
InitVanish ==
    \E mode \in {"copy", "move", "link"}, shallow \in BOOLEAN,
       o1 \in {{<<P1, f>>} : f \in {Image(1, 1), Undated(1, 1)}},
       o2 \in {{}} \cup {{<<P2, f>>} \cup sc : f \in {Image(1, 1), Image(2, 1)},
                                             sc \in {{}, SidecarsOfP2}},
       o3 \in {{}} \cup {{<<P3, Image(id, 1)>>} : id \in 1..MaxContent} :
        Start([DefaultArgs EXCEPT !.move = (mode = "move"), !.link = (mode = "link"),
                                  !.use_shallow_cmp = shallow],
              FilesOf(o1 \cup o2 \cup o3),
              BaseDirs \cup (IF o3 = {} THEN {} ELSE {SubDir}))

NextVanish == NextRun \/ Vanish

SpecVanish == InitVanish /\ [][NextVanish]_vars

\* The runs that sort dated and undated files with and without
\* skip_unknown, under every shape of the output path: with and without
\* output_prefix, output_suffix and no_date_dir.
InitUnknown ==
    \E mode \in {"copy", "move"}, skip \in BOOLEAN,
       prefix \in {None, "pre"}, sfx \in {None, "sfx", "unknown"},
       nodate \in {None, "nodate"},
       o1 \in {{<<P1, f>>} : f \in {Image(1, 1), Undated(1, 1)}},
       o2 \in {{}} \cup {{<<P2, f>>} : f \in {Image(2, 1), Undated(2, 1)}} :
        Start([DefaultArgs EXCEPT !.move = (mode = "move"), !.skip_unknown = skip,
                                  !.output_prefix = prefix, !.output_suffix = sfx,
                                  !.no_date_dir = nodate],
              FilesOf(o1 \cup o2), BaseDirs)

SpecUnknown == InitUnknown /\ [][NextRun]_vars

\* The runs with a type filter, --file-type image or video, on images,
\* videos and files of neither type, in copy and link mode, real and dry.
InitType ==
    \E mode \in {"copy", "link"}, dry \in BOOLEAN, type \in {"image", "video"},
       o1 \in {{<<P1, f>>} : f \in {Image(1, 1), Video(1, 1), Text(1, 1)}},
       o2 \in {{}} \cup {{<<P2, f>>} : f \in {Image(2, 1), Video(2, 1)}},
       o3 \in {{}} \cup {{<<P3, Video(3, 1)>>}} :
        Start([DefaultArgs EXCEPT !.link = (mode = "link"), !.dry_run = dry,
                                  !.file_type = type],
              FilesOf(o1 \cup o2 \cup o3),
              BaseDirs \cup (IF o3 = {} THEN {} ELSE {SubDir}))

SpecType == InitType /\ [][NextWalk]_vars

\* The dates of day d: every second of the day.
Moments == {[day |-> d, sec |-> sc] : d \in 1..MaxDay, sc \in 0..MaxSec}

\* The runs on files of pairwise distinct dates with an output directory
\* that holds nothing: every mode, real and dry, with and without a type
\* filter and original file names.
InitPlace ==
    \E mode \in {"copy", "move", "link"}, dry, orig \in BOOLEAN,
       type \in {None, "video"},
       m1 \in Moments, m2 \in Moments, m3 \in {[day |-> 1, sec |-> 0], [day |-> 2, sec |-> 1]},
       n2, n3 \in BOOLEAN :
        /\ n2 => m1 # m2
        /\ n3 => m3 # m1 /\ (n2 => m3 # m2)
        /\ ~n2 => m2 = m1
        /\ Start([DefaultArgs EXCEPT !.move = (mode = "move"), !.link = (mode = "link"),
                                     !.dry_run = dry, !.original_filenames = orig,
                                     !.file_type = type],
                 FilesOf({<<P1, Dated(1, m1.day, m1.sec)>>}
                         \cup (IF n2 THEN {<<P2, Dated(1, m2.day, m2.sec)>>} ELSE {})
                         \cup (IF n3 THEN {<<P3, Dated(2, m3.day, m3.sec)>>} ELSE {})),
                 BaseDirs \cup (IF n3 THEN {SubDir} ELSE {}))

SpecPlace == InitPlace /\ [][NextRun]_vars

\* The runs with a date range: --from-date and --to-date each unset or a
\* day, on files dated at any second of any day and on undated files.
InitRange ==
    \E mode \in {"copy", "move"}, dry \in BOOLEAN,
       from \in 0..MaxDay, to \in 0..MaxDay,
       o1 \in {{<<P1, Dated(1, m.day, m.sec)>>} : m \in Moments} \cup {{<<P1, Undated(1, 1)>>}},
       o2 \in {{}} \cup {{<<P2, Dated(2, m.day, m.sec)>>} : m \in Moments} :
        Start([DefaultArgs EXCEPT !.move = (mode = "move"), !.dry_run = dry,
                                  !.from_date = from, !.to_date = to],
              FilesOf(o1 \cup o2), BaseDirs)

SpecRange == InitRange /\ [][NextRun]_vars

\* The directory n levels below input_dir: in, in/s, in/s/t, in/s/t/u.
Level(n) == InputDir \o SubSeq(<<"s", "t", "u">>, 1, n)

\* The names walk_directory leaves out, in upper and lower case.
IgnoredNames ==
    {<<".DS_Store">>, <<"Thumbs", ".db">>, <<"IMG_", "1", ".LRV">>,
     <<"IMG_", "1", ".lrv">>, <<"IMG_", "1", ".thm">>}

\* The runs with a depth limit: max_depth unset or a depth, on trees of
\* one to four levels with a file on every level, two files and a sidecar
\* in the input directory, and an ignored file on some level.
InitDepth ==
    \E k \in -1..MaxDepth, levels \in 0..3, at \in 0..3,
       ign \in {{}} \cup {{n} : n \in IgnoredNames},
       o2 \in {{}, {<<P2, Dated(1, 1, 1)>>},
               {<<P2, Dated(1, 1, 1)>>, << <<InputDir, <<"IMG_", "2", ".xmp">> >>, Xmp(2, 1)>>}} :
        /\ at <= levels
        /\ ign = {} => at = 0
        /\ Start([DefaultArgs EXCEPT !.max_depth = k],
                 FilesOf({<< <<Level(n), <<"IMG_", "1", ".JPG">> >>, Dated(1, n + 1, 0) >> : n \in 0..levels}
                         \cup {<< <<Level(at), n>>, Text(1, 1) >> : n \in ign}
                         \cup o2),
                 BaseDirs \cup {Level(n) : n \in 0..levels})

SpecDepth == InitDepth /\ [][NextWalk]_vars

\* A JPEG and a HEIC image of one timestamp and different contents, each
\* with its own XMP sidecar.
PA == <<InputDir, <<"IMG_", "1", ".JPG">> >>
PB == <<InputDir, <<"IMG_", "2", ".HEIC">> >>
SidecarOfPA == <<InputDir, <<"IMG_", "1", ".xmp">> >>
SidecarOfPB == <<InputDir, <<"IMG_", "2", ".xmp">> >>

\* The sequential runs on the two images and their sidecars, in every
\* mode, real and dry, with generated and with original file names.
InitSidecar ==
    \E mode \in {"copy", "move", "link"}, dry, orig \in BOOLEAN,
       xa \in 1..MaxContent, xb \in 1..MaxContent,
       sa \in BOOLEAN, sb \in BOOLEAN :
        Start([DefaultArgs EXCEPT !.move = (mode = "move"), !.link = (mode = "link"),
                                  !.dry_run = dry, !.original_filenames = orig],
              FilesOf({<<PA, File(1, "image/jpeg", 1, 0, 1)>>,
                       <<PB, File(2, "image/heic", 1, 0, 1)>>}
                      \cup (IF sa THEN {<<SidecarOfPA, Xmp(xa, 1)>>} ELSE {})
                      \cup (IF sb THEN {<<SidecarOfPB, Xmp(xb, 1)>>} ELSE {})),
              BaseDirs)

SpecSidecar == InitSidecar /\ [][NextRun]_vars

\* The directory of day 1 in a tree that is input and output at once, and
\* the file in it that sits at its own target path, under a generated and
\* under its original name.
OwnDir == OutputDir \o <<strftime([day |-> 1, sec |-> 0])>>
Own(orig) ==
    <<OwnDir, IF orig THEN <<"IMG_", "1", ".JPG">>
              ELSE lower(get_file_name([original_filenames |-> FALSE],
                                       <<OwnDir, <<"IMG_", "1", ".JPG">> >>,
                                       [date |-> [day |-> 1, sec |-> 0], subseconds |-> ""]))>>

\* The sequential runs whose input tree is the output tree: one file is
\* at the path it resolves to, and a file of the same date, of this or
\* another content, may lie in the root of the tree.
InitOverlap ==
    \E mode \in {"copy", "move", "link"}, orig \in BOOLEAN,
       o \in {{}} \cup {{<< <<OutputDir, <<"IMG_", "1", ".JPG">> >>, Dated(id, 1, 0)>>} :
                          id \in 1..MaxContent} :
        Start([DefaultArgs EXCEPT !.input_dir = OutputDir,
                                  !.move = (mode = "move"), !.link = (mode = "link"),
                                  !.original_filenames = orig],
              FilesOf({<<Own(orig), Dated(1, 1, 0)>>} \cup o),
              {<<"data">>, OutputDir, OwnDir})

SpecOverlap == InitOverlap /\ [][NextRun]_vars

\* The concurrent runs: the workers of the pool, on trees whose files
\* collide or are duplicates, with and without sidecars.
InitConc ==
    \E mode \in {"copy", "move", "link"},
       o2 \in {{<<P2, f>>} \cup sc : f \in {Image(1, 1), Image(2, 1)},
                                   sc \in {{}, SidecarsOfP2}},
       o3 \in {{}} \cup {{<<P3, Image(3, 1)>>}} :
        Start([DefaultArgs EXCEPT !.move = (mode = "move"), !.link = (mode = "link"),
                                  !.max_concurrency = MaxWorkers],
              FilesOf({<<P1, Image(1, 1)>>} \cup o2 \cup o3),
              BaseDirs \cup (IF o3 = {} THEN {} ELSE {SubDir}))

NextConc == NextRun \/ Interrupt \/ Cancel \/ Reraise

SpecConc == InitConc /\ [][NextConc]_vars

-----------------------------------------------------------------------------
(* The claims. *)

Outcomes == {"placed", "skipped_type", "skipped_unknown", "skipped_date",
             "skipped_duplicate", "deleted_duplicate", "skipped_missing"}

\* The entries of the log that are the outcome of a process_file call.
Decisions == {i \in DOMAIN log : log[i].kind \in Outcomes}

\* __init__ has returned and nothing cut the run short.
Completed == phase = "done" /\ ~hist.interrupted

\* The primary files handed to process_file: those not named as a sidecar.
Primaries ==
    {hist.dispatched[k] : k \in {j \in DOMAIN hist.dispatched :
        \A i \in 1..Len(known_sidecar_extensions) :
            ~endswith(hist.dispatched[j][2], known_sidecar_extensions[i])}}

\* The target path a file resolves to in the trees the run started on.
Resolved(p) == get_file_name_and_path(cfg, hist.files0, p).target_file_path

\* The files that resolve to the target T.
Group(T) == {p \in Primaries : Resolved(p) = T}

\* name-k.ext for a path name.ext: the number goes between the name and
\* its last extension.
Numbered(T, k) ==
    <<T[1], SubSeq(T[2], 1, Len(T[2]) - 1) \o << "-" \o ToString(k) >>
                \o <<T[2][Len(T[2])]>> >>

\* name.ext, name-2.ext, ..., name-n.ext
Expected(T, n) == {T} \cup {Numbered(T, k) : k \in 2..n}

\* The log entries that place a file of G.
PlacedOf(G) == {i \in Decisions : log[i].kind = "placed" /\ log[i].file \in G}

\* The files of G pairwise differ in content and none of the paths
\* name.ext ... name-N.ext existed when the run began.
Colliding(G, T) ==
    /\ \A p, q \in G : p # q => hist.files0[p].data # hist.files0[q].data
    /\ \A t \in Expected(T, Cardinality(G)) : ~isfile(hist.files0, t)

\* The files of G are at the paths name.ext ... name-N.ext, one at each.
EndAt(G, T) ==
    /\ {log[i].target : i \in PlacedOf(G)} = Expected(T, Cardinality(G))
    /\ \A p \in G : Cardinality({i \in PlacedOf(G) : log[i].file = p}) = 1
    /\ \A i \in PlacedOf(G) :
          /\ isfile(files, log[i].target)
          /\ files[log[i].target].data = hist.files0[log[i].file].data

\* The comparison tells the files of G apart: it reads the contents, or the
\* files differ in size or modification time.
ToldApart(G) ==
    \/ ~cfg.use_shallow_cmp
    \/ \A p, q \in G : p # q =>
            \/ SizeOf(hist.files0[p].data.id) # SizeOf(hist.files0[q].data.id)
            \/ hist.files0[p].mtime # hist.files0[q].mtime

\* No filter skipped a file of G, and no other file and no sidecar of the
\* run was placed on one of the paths name.ext ... name-N.ext.
Undisturbed(G, T) ==
    /\ \A i \in Decisions : log[i].file \in G =>
            log[i].kind \notin {"skipped_type", "skipped_unknown", "skipped_date",
                                "skipped_missing"}
    /\ \A i \in DOMAIN log :
            log[i].kind \in {"placed", "sidecar"} /\ log[i].file \notin G =>
                log[i].target \notin Expected(T, Cardinality(G))

\* C1 as stated: in a sequential run that is no dry run, the N files that
\* resolve to one target and pairwise differ in content end at name.ext,
\* name-2.ext, ..., name-N.ext when none of these paths existed before.
C1_AsStated ==
    Completed /\ ~Concurrent /\ ~cfg.dry_run =>
        \A T \in {Resolved(p) : p \in Primaries} :
            Colliding(Group(T), T) => EndAt(Group(T), T)

\* C1: in a sequential run that is no dry run, the N files that resolve to
\* one target and pairwise differ in content end at the N paths name.ext,
\* name-2.ext, ..., name-N.ext, in whatever order they are processed, when
\* none of these paths existed before the run, the comparison tells the
\* files apart (it is not shallow, or the files differ in size or
\* modification time), no filter skips one of them and nothing else is
\* placed on one of these paths during the run.
C1_SuffixesWithoutGaps ==
    Completed /\ ~Concurrent /\ ~cfg.dry_run =>
        \A T \in {Resolved(p) : p \in Primaries} :
            Colliding(Group(T), T) /\ ToldApart(Group(T)) /\ Undisturbed(Group(T), T)
                => EndAt(Group(T), T)

\* Three files of different content collided on one target and the run
\* placed them at name.ext, name-2.ext and name-3.ext.
C1_Witness ==
    /\ Completed /\ ~Concurrent /\ ~cfg.dry_run
    /\ \E T \in {Resolved(p) : p \in Primaries} :
          /\ Cardinality(Group(T)) = 3
          /\ Colliding(Group(T), T) /\ ToldApart(Group(T)) /\ Undisturbed(Group(T), T)
          /\ isfile(files, Numbered(T, 3))

\* The log entries that place a primary file.
Placements == {i \in Decisions : log[i].kind = "placed"}

\* C2: under every interleaving of the workers, two files of different
\* content are never placed on the same path, and a file that was placed
\* stays at its target with its content: no other worker's move or copy
\* replaces it.
C2_ProbeThenActIsSafe ==
    Concurrent /\ ~cfg.dry_run =>
        /\ \A i, j \in Placements :
              hist.files0[log[i].file].data # hist.files0[log[j].file].data
                  => log[i].target # log[j].target
        /\ \A i \in Placements :
              /\ isfile(files, log[i].target)
              /\ files[log[i].target].data = hist.files0[log[i].file].data

\* C3: a dry run changes nothing in the file system: every file and every
\* directory of the input and output trees is as it was when the run began.
C3_DryRunMutatesNothing ==
    cfg.dry_run => files = hist.files0 /\ dirs = hist.dirs0

\* C4: the real run on the trees and with the arguments of a dry run ends
\* with the files_moved and files_copied the dry run ended with.
C4_DryRunCountsMatchRealRun ==
    phase = "done" /\ hist.run = 2 =>
        /\ counters.files_moved = hist.first.counters.files_moved
        /\ counters.files_copied = hist.first.counters.files_copied

\* C5: the source of a file found to be a duplicate of its target is
\* deleted only in a run given movedel, move and skip_unknown together,
\* and the target stays as it was.
C5_DuplicateSourceDeletedOnlyWithMovedel ==
    \A i \in DOMAIN log :
        log[i].kind \in {"skipped_duplicate", "deleted_duplicate"} =>
            /\ isfile(files, log[i].target)
            /\ ~isfile(files, log[i].file) =>
                   cfg.movedel[1] /\ cfg.move /\ cfg.skip_unknown

\* The files the first run placed.
PlacedFirst ==
    {hist.first.log[i].file :
        i \in {j \in DOMAIN hist.first.log : hist.first.log[j].kind = "placed"}}

\* C6: the second run in copy mode over the same input and the output of
\* the first finds every file the first run placed to be a duplicate,
\* changes no file and creates no directory.
C6_SecondRunOnlyDuplicates ==
    hist.run = 2 /\ ~cfg.move /\ ~cfg.link =>
        /\ files = hist.first.files
        /\ dirs = hist.first.dirs
        /\ phase = "done" =>
              \A f \in PlacedFirst :
                  \E i \in Decisions :
                      /\ log[i].file = f
                      /\ log[i].kind \in {"skipped_duplicate", "deleted_duplicate"}

\* The name the claim gives a sidecar: the way the sidecar's name is made
\* from the primary's name, applied to the primary's target name with its
\* collision suffix.
ClaimedSidecarName(primary, original, target) ==
    LET ext == <<original[Len(original)]>>
        stem == splitext(primary)[1]
        tstem == splitext(target)[1]
    IN CASE original = primary \o ext -> target \o ext
         [] original = stem \o ext -> tstem \o ext
         [] original = replace_IMG(stem) \o ext -> replace_IMG(tstem) \o ext
         [] original = stem \o <<"O">> \o ext -> tstem \o <<"O">> \o ext
         [] OTHER -> << >>

\* C7: the sidecars of a primary file placed with a collision suffix lie
\* in the primary's directory under the name made from the suffixed name of
\* the primary: <stem>-k.xmp, <stem>-k<ext>.xmp.
C7_SidecarNamedAfterSuffixedPrimary ==
    \A i \in DOMAIN hist.sidecars :
        LET e == hist.sidecars[i]
        IN e.suffix >= 2 =>
            /\ e.target[1] = e.primary_target[1]
            /\ e.target[2] = ClaimedSidecarName(e.primary[2], e.original[2],
                                                e.primary_target[2])

\* The number of outcomes of the given kinds.
Count(kinds) == Cardinality({i \in Decisions : log[i].kind \in kinds})

\* C8: when a concurrent run ends every counter holds the number of its
\* increments: files_processed the number of process_file calls that
\* reached their end, duplicates_found and unknown_found the numbers of
\* these outcomes, files_moved or files_copied the number of transfers.
C8_NoIncrementLost ==
    Concurrent /\ phase = "done" =>
        /\ counters.files_processed = Cardinality(hist.returned)
        /\ counters.duplicates_found = Count({"skipped_duplicate", "deleted_duplicate"})
        /\ counters.unknown_found = Count({"skipped_unknown"})
        /\ counters.files_moved =
              IF cfg.move THEN Count({"placed", "skipped_missing"}) ELSE 0
        /\ counters.files_copied =
              IF cfg.move \/ (cfg.link /\ ~cfg.dry_run) THEN 0
              ELSE Count({"placed", "skipped_missing"})

\* C9: at the end of a sequential run every file handed to process_file
\* has one outcome and files_processed is the number of files handed over.
C9_ProcessedCountsEveryWorkItem ==
    Completed /\ ~Concurrent =>
        /\ counters.files_processed = Len(hist.dispatched)
        /\ \A k \in DOMAIN hist.dispatched :
              Cardinality({i \in Decisions : log[i].file = hist.dispatched[k]}) = 1

\* The sidecar files process_sidecars finds for a primary file in the trees
\* the run started on.
SidecarsFoundFor(f) ==
    UNION {{sidecar_files(hist.files0, f, f[2], 1, known_sidecar_extensions[i])[k][1] :
                k \in DOMAIN sidecar_files(hist.files0, f, f[2], 1,
                                           known_sidecar_extensions[i])} :
           i \in DOMAIN known_sidecar_extensions}

\* C10: after an interrupt no further file is started, and a file whose
\* processing was under way when the interrupt came is finished before the
\* run returns: when its primary file is placed, each of its sidecars is
\* placed as well.
C10_InterruptLetsInflightFinish ==
    hist.interrupted /\ phase = "done" =>
        /\ hist.late = {}
        /\ \A f \in hist.inflight :
              (\E i \in Placements : log[i].file = f) =>
                  \A sc \in SidecarsFoundFor(f) :
                      \E i \in DOMAIN log : log[i].kind = "sidecar" /\ log[i].file = sc

\* The primary files that vanished before process_file was through with
\* them.
VanishedPrimaries == hist.vanished \cap Primaries

\* C11: a source file that vanished between its listing and its mutation
\* never ends the run: no process_file call is left by FileNotFoundError,
\* and when the run is over the file has the outcome "skipped, no such
\* file" and is counted in files_processed.
C11_MissingSourceNeverAborts ==
    /\ \A w \in Threads : th[w].pc = "raised" => th[w].err # "FileNotFoundError"
    /\ phase = "done" =>
          \A f \in VanishedPrimaries :
              /\ \E i \in Decisions : log[i].file = f /\ log[i].kind = "skipped_missing"
              /\ f \in hist.returned

\* The date the resolver finds for a file of the tree the run started on.
DateOf(p) == Date_from_exif(Exif_data(hist.files0, p)).date

\* The outcomes logged for a file.
OutcomesOf(p) == {log[i].kind : i \in {j \in Decisions : log[j].file = p}}

\* C12: with skip_unknown, a file whose date cannot be resolved is skipped
\* as unknown and stays where it was, whatever no_date_dir, output_prefix
\* and output_suffix are; and a file whose date is resolved is never
\* skipped as unknown.
C12_SkipUnknownWhateverThePath ==
    Completed =>
        \A f \in Primaries :
            /\ (cfg.skip_unknown /\ DateOf(f) = NoDate) =>
                    /\ OutcomesOf(f) = {"skipped_unknown"}
                    /\ isfile(files, f)
            /\ DateOf(f) # NoDate => "skipped_unknown" \notin OutcomesOf(f)

\* Every file the run processed was skipped by the type filter.
AllSkippedByType ==
    /\ Primaries # {}
    /\ \A f \in Primaries : OutcomesOf(f) = {"skipped_type"}

\* C13: a file skipped by the type filter causes no mutation of the file
\* system, not even a created directory, and changes no counter but
\* files_processed: a run that skipped every file by type leaves the
\* files and the directories as they were.
C13_TypeSkipMutatesNothing ==
    (Completed /\ AllSkippedByType) =>
        /\ files = hist.files0
        /\ dirs = hist.dirs0
        /\ counters = [files_processed |-> Cardinality(Primaries), duplicates_found |-> 0,
                       unknown_found |-> 0, files_moved |-> 0, files_copied |-> 0]

\* The targets the log reports for a file as placed.
TargetsOf(p) ==
    {log[i].target : i \in {j \in Decisions : log[j].file = p /\ log[j].kind = "placed"}}

\* The type filter accepts the file.
Accepted(p) ==
    cfg.file_type \in {None, get_file_type(hist.files0[p].data.mime)}

\* The file is at exactly one path, which is in the directory of its date
\* and is no other file's path, it has the content the source had, and the
\* source is gone if and only if the run moves.
PlacedOnce(f) ==
    /\ Cardinality(TargetsOf(f)) = 1
    /\ \A t \in TargetsOf(f) :
          /\ t[1] = cfg.output_dir \o <<strftime(DateOf(f))>>
          /\ isfile(files, t)
          /\ files[t].data = hist.files0[f].data
          /\ \A g \in Primaries \ {f} : t \notin TargetsOf(g)
    /\ ~isfile(files, f) <=> cfg.move

OutOfRange(p) ==
    \/ cfg.from_date # NoDate /\ DateOf(p).day < cfg.from_date.day
    \/ cfg.to_date # NoDate /\ DateOf(p).day > cfg.to_date.day

\* A file is skipped by the date range exactly when its date is resolved
\* and its day is out of the range: the bounds are inclusive at any time
\* of the day, and an undated file is never skipped by the range.
SkippedIffOutOfRange ==
    Completed =>
        \A f \in Primaries :
            "skipped_date" \in OutcomesOf(f) <=> (DateOf(f) # NoDate /\ OutOfRange(f))

\* Every file the run processed was skipped by the date range.
AllSkippedByDate ==
    /\ Primaries # {}
    /\ \A f \in Primaries : OutcomesOf(f) = {"skipped_date"}

\* C15: the date range is inclusive at day granularity: a file of a
\* resolved date is skipped exactly when its day is before from_date or
\* after to_date, an undated file is never skipped by the range, and a
\* skipped file causes no mutation: a run that skipped every file by date
\* leaves the files and the directories as they were.
C15_DateRangeInclusiveAndInert ==
    /\ SkippedIffOutOfRange
    /\ (Completed /\ AllSkippedByDate) => files = hist.files0 /\ dirs = hist.dirs0

\* The directories below input_dir that the run removed.
RemovedDirs == hist.dirs0 \ dirs

\* C16: the removal of empty directories is optional and bounded: a
\* directory is removed only in a run configured with rmdirs and move,
\* only when it holds nothing, and only within max_depth of the input
\* root; a run without rmdirs removes no directory.
C16_CleanupOptionalAndBounded ==
    \A d \in RemovedDirs :
        /\ cfg.rmdirs[1] /\ cfg.move
        /\ \A p \in DOMAIN files : p[1] # d
        /\ cfg.max_depth > -1 => get_depth(cfg, d) <= cfg.max_depth

\* The depth of a file's directory below input_dir.
DepthOf(p) == Len(p[1]) - Len(cfg.input_dir)

\* The name is in the ignored-name set or ends, in any case, with an
\* ignored extension.
IgnoredName(name) ==
    \/ name \in {<<".DS_Store">>, <<"Thumbs", ".db">>}
    \/ name[Len(name)] \in {".lrv", ".LRV", ".thm"}

\* The files of the input tree the claim wants handed to process_file.
ToDispatch ==
    {p \in DOMAIN hist.files0 :
        /\ SubSeq(p[1], 1, Len(cfg.input_dir)) = cfg.input_dir
        /\ ~IgnoredName(p[2])
        /\ cfg.max_depth = -1 \/ DepthOf(p) <= cfg.max_depth}

\* C17: with max_depth = k >= 0 the files handed to process_file are the
\* files of the directories at depth k or less whose names are not
\* ignored, with max_depth = -1 all the files of the tree whose names are
\* not ignored, each of them once, and the files of one directory are
\* handed over in the lexicographic order of their names.
C17_DepthBoundedTraversal ==
    Completed =>
        /\ {hist.dispatched[i] : i \in DOMAIN hist.dispatched} = ToDispatch
        /\ Len(hist.dispatched) = Cardinality(ToDispatch)
        /\ \A i, j \in DOMAIN hist.dispatched :
              (i < j /\ hist.dispatched[i][1] = hist.dispatched[j][1])
                  => NameLess(hist.dispatched[i][2], hist.dispatched[j][2])

\* A run with a depth limit of 1 on a tree that is deeper: the files of
\* the boundary directory were handed over, two files of one directory in
\* order, and an ignored file within the limit was left out.
C17_Witness ==
    /\ Completed /\ cfg.max_depth = 1
    /\ \E p \in DOMAIN hist.files0 : DepthOf(p) = 2
    /\ \E i \in DOMAIN hist.dispatched : DepthOf(hist.dispatched[i]) = 1
    /\ \E i \in DOMAIN hist.dispatched : hist.dispatched[i] = P2
    /\ \E p \in DOMAIN hist.files0 : IgnoredName(p[2]) /\ DepthOf(p) = 1

\* The file name ends with a known sidecar extension, .xmp or .aae.
SidecarNamed(p) == p[2][Len(p[2])] \in {".xmp", ".aae"}

\* The sidecars process_sidecars handled, with the primary file of the
\* process_file call that handled them.
Handled == {hist.sidecars[i] : i \in DOMAIN hist.sidecars}

C20_SidecarNeverOverwrites ==
    /\ \A d, e \in Handled : d.original # e.original => d.target # e.target
    /\ \A w \in Threads : th[w].pc = "raised" => th[w].err # "FileExistsError"
    /\ (Completed /\ ~cfg.dry_run) =>
          \A e \in Handled :
              /\ isfile(files, e.target)
              /\ files[e.target].data = hist.files0[e.original].data

\* The probes of the loop of process_file for a file.
ProbesOf(p) == {r \in hist.probes : r.file = p}

\* C19: the probe loop of process_file tries target, target-2, target-3,
\* ... with the suffix one higher at every probe and no candidate twice,
\* and it ends at the first candidate that does not exist or that exists
\* with the content of the source: no probe follows such a candidate, and
\* a file that left the loop has probed one.
C19_ProbeEndsAtFirstFreeOrIdentical ==
    \A f \in Primaries :
        /\ {r.suffix : r \in ProbesOf(f)} = 1..Cardinality(ProbesOf(f))
        /\ \A q, r \in ProbesOf(f) : q.candidate = r.candidate => q = r
        /\ \A r \in ProbesOf(f) :
              (~r.exists \/ r.identical) =>
                  \A q \in ProbesOf(f) : q.suffix <= r.suffix
        /\ (\E i \in Decisions : log[i].file = f /\ log[i].kind \in
                    {"placed", "skipped_duplicate", "deleted_duplicate"}) =>
              \E r \in ProbesOf(f) : ~r.exists \/ r.identical

\* The primary files that lie at the path they resolve to: the input tree
\* and the output tree overlap.
AtOwnTarget == {f \in Primaries : Resolved(f) = f}

\* The files of the output that no file of the input was and that the log
\* reports as the placement of the given file.
CreatedFor(f) == {t \in TargetsOf(f) : t \notin DOMAIN hist.files0}

\* C21: a file that is at its own target path is left in place by
\* process_file: it stays where and what it was, it is not placed at
\* another path such as name-2.ext, and no file is created for it.
C21_FileAtOwnTargetLeftInPlace ==
    \A f \in AtOwnTarget :
        /\ isfile(files, f)
        /\ files[f] = hist.files0[f]
        /\ TargetsOf(f) \subseteq {f}
        /\ CreatedFor(f) = {}

=============================================================================
